---- MODULE Spec2Model ----
(***************************************************************************)
(* Task Master Pro (src/Task_tracker.py): the session-scoped Task Store,   *)
(* its whole-table synchronisation with the remote worksheet 'Tasks', the  *)
(* retry wrapper, the once-per-session auto-promotion policy and the       *)
(* mutation handlers.                                                      *)
(*                                                                         *)
(* Dates are day numbers: the first ten characters of created_at and       *)
(* get_today_str() are compared as strings by the code; a day number d > 0 *)
(* stands for a 'YYYY-MM-DD' string and 0 for the empty string, which is   *)
(* smaller than every date in the string order as 0 is here.               *)
(* completed_at is 0 for None, else the day of the timestamp.              *)
(* An error message is the set of the marker substrings it contains, so    *)
(* that `x in str(e)` is membership.                                       *)
(***************************************************************************)
EXTENDS Integers, Sequences, FiniteSets, TLC

\* ------------------------------------------------------------- bounds
MaxTasks == 2
MaxId == 3
MaxDay == 2
MaxAttempts == 3
MaxOps == 2
MaxRows == 3
MaxRawRows == 2

\* ---------------------------------------------------------- constants
RETRIES == 5

TransientMarks == {"429", "RESOURCE_EXHAUSTED", "Quota exceeded", "500", "503"}
BusyError == {"Server is busy"}
NotFound == {"WorksheetNotFound"}
Errors ==
  {{"429", "RESOURCE_EXHAUSTED", "Quota exceeded"}, {"500"}, {"503"},
   NotFound, {"PermissionDenied"}}

Priorities == {"High", "Medium"}
Texts == {"a", "b"}

VARIABLES
  today,             \* get_today_str()
  sheet_exists,      \* the worksheet 'Tasks' exists on the remote
  sheet,             \* its rows
  has_tasks_df,      \* 'tasks_df' in st.session_state
  tasks_df,          \* st.session_state['tasks_df']
  auto_promote_ran,  \* 'auto_promote_ran' in st.session_state
  uuid_next,         \* the next value uuid.uuid4() yields (never repeats)
  pc,                \* the script's position: idle, load (405), promote (406)
  last,              \* what the last step did (calls, toasts, st.stop, error)
  toggled,           \* history: the run of toggles of one id
  deleted,           \* history: ids deleted since the last forced load
  ops,               \* the number of user actions handled in the session
  policy_called,     \* history: run_auto_promote has run on a loaded table
  checkboxes,        \* the ids whose checkbox (line 529) the session has drawn
  r_pc, r_retries, r_i, r_log, r_res,  \* one call of retry_operation
  pandas,            \* what Series.replace(x, None) does in the installed pandas
  raw_table,         \* the DataFrame conn.read returned
  norm_pc,           \* raw, once, twice (normalized), or failed (it raised)
  norm_first,        \* the table the first normalization gave
  norm_table,        \* the table the last normalization gave
  cur,               \* the session whose script is running (session_state above)
  peer               \* session_state and script position of the other session

vars == <<today, sheet_exists, sheet, has_tasks_df, tasks_df, auto_promote_ran,
          uuid_next, pc, last, toggled, deleted, ops, policy_called,
          checkboxes, r_pc, r_retries, r_i, r_log, r_res,
          pandas, raw_table, norm_pc, norm_first, norm_table, cur, peer>>

sessionVars == <<today, sheet_exists, sheet, has_tasks_df, tasks_df,
                 auto_promote_ran, uuid_next, pc, last, toggled, deleted,
                 ops, policy_called, checkboxes>>

retryVars == <<r_pc, r_retries, r_i, r_log, r_res>>

normVars == <<pandas, raw_table, norm_pc, norm_first, norm_table>>

peerVars == <<cur, peer>>

\* ------------------------------------------------------ retry wrapper
Ok == [ok |-> TRUE, err |-> {}]

Fail(e) == [ok |-> FALSE, err |-> e]

Outcomes == {Ok} \cup {Fail(e) : e \in Errors}

IsTransient(e) == \E x \in TransientMarks : x \in e

\* The loop with one iteration too many.
in_range_inclusive(i, retries) == i <= retries

\* `for i in range(retries)`: another iteration follows.
in_range(i, retries) == i < retries

\* The loop body with every error taken for a rate limit.
retry_attempt_retries_all(out) == IF out.ok THEN "return" ELSE "continue"

\* One iteration of the loop body, given what func() did.
retry_attempt(out) ==
  IF out.ok THEN "return"
  ELSE IF IsTransient(out.err) THEN "continue"
  ELSE "raise"

\* retry_operation as a function of the successive outcomes of func().
RECURSIVE retry_operation(_, _, _)
retry_operation(run, i, n) ==
  IF ~in_range(i, n) THEN [ok |-> FALSE, err |-> BusyError, calls |-> i]
  ELSE LET out == run[i + 1]
           how == retry_attempt(out)
       IN  IF how = "return" THEN [ok |-> TRUE, err |-> {}, calls |-> i + 1]
           ELSE IF how = "continue" THEN retry_operation(run, i + 1, n)
           ELSE [ok |-> FALSE, err |-> out.err, calls |-> i + 1]

\* The outcome sequences one call of retry_operation can consume: transient
\* failures, ended by an outcome of `finals` or by the attempts running out.
RetryRuns(finals, n) ==
  LET T == {o \in Outcomes : ~o.ok /\ IsTransient(o.err)}
      F == {o \in finals : o.ok \/ ~IsTransient(o.err)}
  IN  UNION {{s \in [1..k -> T \cup F] :
                /\ \A j \in 1..(k - 1) : s[j] \in T
                /\ (s[k] \in F \/ k = n)} : k \in 1..n}

\* ------------------------------------------------------------- tables
NaN == -1   \* a missing custom_sort_index cell

Row(id, text, priority, completed, created_at, completed_at, flag, rank) ==
  [id |-> id, text |-> text, priority |-> priority, completed |-> completed,
   created_at |-> created_at, completed_at |-> completed_at,
   was_auto_promoted |-> flag, custom_sort_index |-> rank]

Ids(df) == {df[i].id : i \in 1..Len(df)}

\* Series.max(): NaN cells are skipped, and an all-NaN or empty column gives NaN.
series_max(df) ==
  LET S == {df[i].custom_sort_index : i \in 1..Len(df)} \ {NaN}
  IN  IF S = {} THEN NaN ELSE CHOOSE m \in S : \A x \in S : x <= m

\* `m = col.max(); if pd.isna(m): m = 0`
max_or_zero(df) == IF series_max(df) = NaN THEN 0 ELSE series_max(df)

\* The repair of the custom_sort_index column on load; typed booleans pass
\* clean_bool unchanged, a missing created_at is '' (0), a missing
\* completed_at is None (0).
normalize(df) ==
  LET n == Len(df)
      allnull == \A i \in 1..n : df[i].custom_sort_index = NaN
      anynull == \E i \in 1..n : df[i].custom_sort_index = NaN
  IN  IF allnull /\ n > 0
        THEN [i \in 1..n |-> [df[i] EXCEPT !.custom_sort_index = n - i + 1]]
      ELSE IF anynull
        THEN [i \in 1..n |->
               IF df[i].custom_sort_index = NaN
                 THEN [df[i] EXCEPT !.custom_sort_index = max_or_zero(df)]
                 ELSE df[i]]
      ELSE df

\* ----------------------------------------------------------- the sync
NoWrite == [attempted |-> FALSE, ok |-> TRUE]

NoRead == [attempted |-> FALSE, ok |-> TRUE, err |-> {}]

\* What a caller of retry_operation sees of a call.
Seen(r) == [attempted |-> r.calls > 0, ok |-> r.ok, err |-> r.err]

\* What retry_operation(write_op) can do: conn.update may succeed or fail
\* in any way on any attempt.
WriteResults == {Seen(retry_operation(run, 0, RETRIES)) : run \in RetryRuns(Outcomes, RETRIES)}

\* What retry_operation(read_op) can do: conn.read finds the worksheet or
\* signals that it is missing, or fails otherwise.
ReadResultsFound ==
  {Seen(retry_operation(run, 0, RETRIES)) :
     run \in RetryRuns(Outcomes \ {Fail(NotFound)}, RETRIES)}

ReadResultsMissing ==
  {Seen(retry_operation(run, 0, RETRIES)) :
     run \in RetryRuns(Outcomes \ {Ok}, RETRIES)}

ReadResults == IF sheet_exists THEN ReadResultsFound ELSE ReadResultsMissing

\* sync_to_cloud without its try/except.
sync_to_cloud_uncaught(has, df, w) ==
  IF ~has
    THEN [sheet |-> sheet, exists |-> sheet_exists, write |-> NoWrite,
          toasts |-> {}, raised |-> FALSE]
    ELSE [sheet  |-> IF w.ok THEN df ELSE sheet,
          exists |-> IF w.ok THEN TRUE ELSE sheet_exists,
          write  |-> [attempted |-> TRUE, ok |-> w.ok],
          toasts |-> {},
          raised |-> ~w.ok]

\* A write that appends the rows the worksheet lacks and touches no other.
sync_to_cloud_append_only(has, df, w) ==
  LET new(r) == r.id \notin Ids(sheet)
  IN  IF ~has
        THEN [sheet |-> sheet, exists |-> sheet_exists, write |-> NoWrite,
              toasts |-> {}, raised |-> FALSE]
        ELSE [sheet  |-> IF w.ok THEN sheet \o SelectSeq(df, new) ELSE sheet,
              exists |-> IF w.ok THEN TRUE ELSE sheet_exists,
              write  |-> [attempted |-> TRUE, ok |-> w.ok],
              toasts |-> IF w.ok THEN {} ELSE {"Cloud sync failed"},
              raised |-> FALSE]

\* A write that adds and replaces rows but removes none.
sync_to_cloud_upsert(has, df, w) ==
  LET kept(r) == r.id \notin Ids(df)
  IN  IF ~has
        THEN [sheet |-> sheet, exists |-> sheet_exists, write |-> NoWrite,
              toasts |-> {}, raised |-> FALSE]
        ELSE [sheet  |-> IF w.ok THEN df \o SelectSeq(sheet, kept) ELSE sheet,
              exists |-> IF w.ok THEN TRUE ELSE sheet_exists,
              write  |-> [attempted |-> TRUE, ok |-> w.ok],
              toasts |-> IF w.ok THEN {} ELSE {"Cloud sync failed"},
              raised |-> FALSE]

\* sync_to_cloud on the table df, where retry_operation(write_op) does w:
\* what becomes of the worksheet, the toast, and whether an exception
\* leaves the function.
sync_to_cloud(has, df, w) ==
  IF ~has
    THEN [sheet |-> sheet, exists |-> sheet_exists, write |-> NoWrite,
          toasts |-> {}, raised |-> FALSE]
    ELSE [sheet  |-> IF w.ok THEN df ELSE sheet,
          exists |-> IF w.ok THEN TRUE ELSE sheet_exists,
          write  |-> [attempted |-> TRUE, ok |-> w.ok],
          toasts |-> IF w.ok THEN {} ELSE {"Cloud sync failed"},
          raised |-> FALSE]

NoSync == sync_to_cloud(FALSE, <<>>, Seen(retry_operation(<<Ok>>, 0, RETRIES)))

\* The record of a step: the handler and its arguments, the flag the target
\* row had before, what the step's read and write did, whether st.stop() was
\* reached, the toasts shown, whether an exception left the handler, the
\* rules of run_auto_promote that matched a row, whether the table the
\* step started from differed from the worksheet when it came to write, and
\* the ids of the rows in the order a drag left them on the screen.
Quiet(op) ==
  [op |-> op, id |-> 0, val |-> FALSE, text |-> "", priority |-> "",
   was |-> FALSE, read |-> NoRead, write |-> NoWrite,
   stopped |-> FALSE, toasts |-> {}, raised |-> FALSE,
   matched |-> {}, behind |-> FALSE, order |-> <<>>]

NoToggle == [id |-> 0, n |-> 0, completed |-> FALSE, completed_at |-> 0]

\* ------------------------------------------------- the promotion policy
\* The test of the date without the test for the empty string.
stale_any_date(r, D) == r.created_at < D

\* `created_at.str[:10] < today_str` and `created_at.str[:10] != ''`
stale(r, D) == r.created_at < D /\ r.created_at # 0

mask_promote(r, D) == ~r.completed /\ r.priority # "High" /\ stale(r, D)

mask_carried(r, D) ==
  ~r.completed /\ r.priority = "High" /\ ~r.was_auto_promoted /\ stale(r, D)

\* The promoted rows given the current maximum itself.
promote_row_at_max(r, current_max) ==
  [r EXCEPT !.priority = "High", !.was_auto_promoted = TRUE,
            !.custom_sort_index = current_max]

\* The promoted rows flagged and ranked but left at their priority.
promote_row_flag_only(r, current_max) ==
  [r EXCEPT !.was_auto_promoted = TRUE, !.custom_sort_index = current_max + 1]

\* The promoted rows left without the flag.
promote_row_unflagged(r, current_max) ==
  [r EXCEPT !.priority = "High", !.custom_sort_index = current_max + 1]

promote_row(r, current_max) ==
  [r EXCEPT !.priority = "High", !.was_auto_promoted = TRUE,
            !.custom_sort_index = current_max + 1]

\* The carry-over assignment that does nothing.
carry_row_unflagged(r) == r

carry_row(r) == [r EXCEPT !.was_auto_promoted = TRUE]

\* Lines 323-330: the table after the promote rule.
promote_rule(df, D) ==
  [i \in 1..Len(df) |->
     IF mask_promote(df[i], D) THEN promote_row(df[i], max_or_zero(df)) ELSE df[i]]

\* The scan of run_auto_promote (lines 320-335): the table after both rules,
\* the number of rules that matched, mask_promote.sum(), and the rules that
\* matched. mask_carried is computed on the table the promote rule left.
promote_scan(df, D) ==
  LET n == Len(df)
      P == {i \in 1..n : mask_promote(df[i], D)}
      df1 == promote_rule(df, D)
      C == {i \in 1..n : mask_carried(df1[i], D)}
      df2 == [i \in 1..n |-> IF i \in C THEN carry_row(df1[i]) ELSE df1[i]]
  IN  [df |-> df2,
       updates |-> (IF P # {} THEN 1 ELSE 0) + (IF C # {} THEN 1 ELSE 0),
       promoted |-> Cardinality(P),
       matched |-> (IF P # {} THEN {"promote"} ELSE {})
                     \cup (IF C # {} THEN {"carry"} ELSE {})]

\* run_auto_promote without the 'auto_promote_ran' guard.
promote_path_unguarded(has, ran, df) ==
  IF ~has THEN "no_table"
  ELSE IF Len(df) = 0 THEN "empty"
  ELSE "scan"

\* The guards of run_auto_promote (lines 314-318): which way it goes.
promote_path(has, ran, df) ==
  IF ~has THEN "no_table"
  ELSE IF ran THEN "guard"
  ELSE IF Len(df) = 0 THEN "empty"
  ELSE "scan"

\* Line 476: the ids of the rows drawn with a checkbox.
active(df) == {df[i].id : i \in {j \in 1..Len(df) : ~df[j].completed}}

\* Lines 406-555: run_auto_promote(), then the run of the script draws the
\* widgets from the table.
RunAutoPromote ==
  /\ pc = "promote"
  /\ \E w \in WriteResults :
       LET path == promote_path(has_tasks_df, auto_promote_ran, tasks_df)
           sc == promote_scan(tasks_df, today)
           acts == path = "scan" /\ sc.updates > 0
           s == IF acts THEN sync_to_cloud(has_tasks_df, sc.df, w) ELSE NoSync
       IN  /\ tasks_df' = IF acts THEN sc.df ELSE tasks_df
           /\ auto_promote_ran' = (auto_promote_ran \/ path \in {"empty", "scan"})
           /\ policy_called' = (policy_called \/ has_tasks_df)
           /\ sheet' = s.sheet
           /\ sheet_exists' = s.exists
           /\ last' = [Quiet("run_auto_promote") EXCEPT
                         !.write = s.write, !.raised = s.raised,
                         !.matched = IF acts THEN sc.matched ELSE {},
                         !.behind = acts /\ tasks_df # sheet,
                         !.toasts = s.toasts \cup
                            (IF acts /\ sc.promoted > 0 THEN {"Promoted"} ELSE {})]
  /\ pc' = "idle"
  /\ checkboxes' = checkboxes \cup active(tasks_df')
  /\ UNCHANGED <<today, has_tasks_df, uuid_next, toggled, deleted, ops,
                 retryVars, normVars, peerVars>>

\* ------------------------------------------------------------ the load
\* Every read error taken for a missing worksheet.
missing_table_any(err) == TRUE

\* No read error taken for a missing worksheet.
missing_table_never(err) == FALSE

\* Line 305: the error is the missing-table signal.
missing_table(err) == "WorksheetNotFound" \in err

\* load_data(force_refresh); `next` is where the script goes when it returns.
load_data(op, force_refresh, next) ==
  IF has_tasks_df /\ ~force_refresh
    THEN /\ last' = Quiet(op)
         /\ pc' = next
         /\ UNCHANGED <<sheet, sheet_exists, has_tasks_df, tasks_df, deleted>>
    ELSE \E r \in ReadResults, w \in WriteResults :
               IF r.ok
                 THEN /\ tasks_df' = normalize(sheet)
                      /\ has_tasks_df' = TRUE
                      /\ last' = [Quiet(op) EXCEPT !.read = r]
                      /\ pc' = next
                      /\ deleted' = {}
                      /\ UNCHANGED <<sheet, sheet_exists>>
               ELSE IF missing_table(r.err)
                 THEN LET s == sync_to_cloud(TRUE, <<>>, w)
                      IN  /\ tasks_df' = <<>>
                          /\ has_tasks_df' = TRUE
                          /\ sheet' = s.sheet
                          /\ sheet_exists' = s.exists
                          /\ last' = [Quiet(op) EXCEPT
                                        !.read = r, !.write = s.write,
                                        !.toasts = s.toasts, !.raised = s.raised]
                          /\ pc' = next
                          /\ deleted' = {}
               ELSE /\ last' = [Quiet(op) EXCEPT !.read = r, !.stopped = TRUE]
                    /\ pc' = "idle"
                    /\ UNCHANGED <<sheet, sheet_exists, has_tasks_df, tasks_df,
                                   deleted>>

\* Line 405, at the start of every run of the script (the first one, a rerun
\* the user asks for, or the st.rerun() that ends a handler).
LoadData ==
  /\ pc \in {"idle", "load"}
  /\ load_data("load_data", FALSE, "promote")
  /\ UNCHANGED <<today, auto_promote_ran, uuid_next, toggled, ops,
                 policy_called, checkboxes, retryVars, normVars, peerVars>>

\* The widgets exist once a run of the script has got past line 406.
Rendered == pc = "idle" /\ has_tasks_df /\ auto_promote_ran

\* The user acts on a widget.
UserActs == Rendered /\ ops < MaxOps /\ ops' = ops + 1

\* Lines 414-416: the Force Sync button.
ForceSync ==
  /\ UserActs
  /\ load_data("force_sync", TRUE, "load")
  /\ toggled' = NoToggle
  /\ UNCHANGED <<today, auto_promote_ran, uuid_next, policy_called, checkboxes, retryVars, normVars, peerVars>>

\* -------------------------------------------------------- the handlers
\* The new row ranked at the current maximum.
add_task_at_max(df, text, priority, uuid, now) ==
  Append(df, Row(uuid, text, priority, FALSE, now, 0, FALSE, max_or_zero(df)))

add_task(df, text, priority, uuid, now) ==
  Append(df, Row(uuid, text, priority, FALSE, now, 0, FALSE, max_or_zero(df) + 1))

toggle_complete(df, task_id, current_val, now) ==
  LET new_val == ~current_val
  IN  [i \in 1..Len(df) |->
         IF df[i].id = task_id
           THEN [df[i] EXCEPT !.completed = new_val,
                              !.completed_at = IF new_val THEN now ELSE 0]
           ELSE df[i]]

\* The edit that leaves the promotion flag alone.
update_task_details_keeps_flag(df, task_id, new_text, new_priority) ==
  [i \in 1..Len(df) |->
     IF df[i].id = task_id
       THEN [df[i] EXCEPT !.text = new_text, !.priority = new_priority]
       ELSE df[i]]

update_task_details(df, task_id, new_text, new_priority) ==
  [i \in 1..Len(df) |->
     IF df[i].id = task_id
       THEN [df[i] EXCEPT !.text = new_text, !.priority = new_priority,
                          !.was_auto_promoted = FALSE]
       ELSE df[i]]

delete_task(df, task_id) ==
  LET other(r) == r.id # task_id IN SelectSeq(df, other)

\* The loop of handle_sort_change from position `rank` (0-based) on.
RECURSIVE sort_loop(_, _, _)
sort_loop(df, sorted_list, rank) ==
  IF rank >= Len(sorted_list) THEN df
  ELSE LET item_text == sorted_list[rank + 1]
           total_items == Len(sorted_list)
           hit(r) == r.text = item_text /\ ~r.completed
       IN  sort_loop([i \in 1..Len(df) |->
                        IF hit(df[i])
                          THEN [df[i] EXCEPT !.custom_sort_index = total_items - rank]
                          ELSE df[i]],
                     sorted_list, rank + 1)

handle_sort_change(df, sorted_list) == sort_loop(df, sorted_list, 0)

\* The handlers without their guard against stale ids.
in_table_unchecked(df, task_id) == TRUE

\* `target_id in df['id'].values` (lines 360, 373, 386)
in_table(df, task_id) == task_id \in Ids(df)

\* The flag of the row(s) with this id.
FlagOf(df, task_id) == \E i \in 1..Len(df) : df[i].id = task_id /\ df[i].was_auto_promoted

\* A handler ends: the table it leaves, sync_to_cloud() if it got that far,
\* then st.rerun() (or, for the checkbox callback, the run of the script).
Commit(rec, acted, df) ==
  \E w \in WriteResults :
    LET s == IF acted THEN sync_to_cloud(TRUE, df, w) ELSE NoSync
    IN  /\ tasks_df' = IF acted THEN df ELSE tasks_df
        /\ sheet' = s.sheet
        /\ sheet_exists' = s.exists
        /\ last' = [rec EXCEPT !.write = s.write, !.toasts = s.toasts,
                               !.raised = s.raised,
                               !.behind = acted /\ tasks_df # sheet]
        /\ pc' = "load"

\* The ids a widget on the screen may carry: every id handed out so far.
ScreenIds == 1..(uuid_next - 1)

\* Line 492: the Add form.
AddTask ==
  /\ UserActs
  /\ Len(tasks_df) < MaxTasks
  /\ uuid_next <= MaxId
  /\ \E text \in Texts, priority \in Priorities :
       Commit([Quiet("add_task") EXCEPT !.id = uuid_next, !.text = text,
                                        !.priority = priority], TRUE,
              add_task(tasks_df, text, priority, uuid_next, today))
  /\ uuid_next' = uuid_next + 1
  /\ toggled' = NoToggle
  /\ UNCHANGED <<today, has_tasks_df, auto_promote_ran, deleted, policy_called,
                 checkboxes, retryVars, normVars, peerVars>>

\* Line 529 (the checkbox, current_val False) and line 458 (Restore, True).
\* The checkbox's callback carries the arguments it was drawn with, from an
\* earlier snapshot of the table where the row was incomplete; the Restore button is tested in the run
\* that drew it, from the rows that are completed (lines 407, 419).
ToggleComplete ==
  /\ UserActs
  /\ \E task_id \in ScreenIds, current_val \in BOOLEAN :
       LET present == task_id \in Ids(tasks_df)
           row == CHOOSE r \in {tasks_df[i] : i \in 1..Len(tasks_df)} :
                    r.id = task_id
       IN  /\ current_val => (present /\ row.completed)
           /\ ~current_val => task_id \in checkboxes
           /\ Commit([Quiet("toggle_complete") EXCEPT
                        !.id = task_id, !.val = current_val],
                     in_table(tasks_df, task_id),
                     toggle_complete(tasks_df, task_id, current_val, today))
           /\ toggled' =
                IF ~present THEN NoToggle
                ELSE IF toggled.id = task_id /\ toggled.n = 1
                  THEN [toggled EXCEPT !.n = 2]
                ELSE [id |-> task_id, n |-> 1, completed |-> row.completed,
                      completed_at |-> row.completed_at]
  /\ UNCHANGED <<today, has_tasks_df, auto_promote_ran, uuid_next, deleted,
                 policy_called, checkboxes, retryVars, normVars, peerVars>>

\* Line 552: Save in the edit popover.
UpdateTaskDetails ==
  /\ UserActs
  /\ \E task_id \in ScreenIds, new_text \in Texts, new_priority \in Priorities :
       Commit([Quiet("update_task_details") EXCEPT
                 !.id = task_id, !.text = new_text, !.priority = new_priority,
                 !.was = FlagOf(tasks_df, task_id)],
              in_table(tasks_df, task_id),
              update_task_details(tasks_df, task_id, new_text, new_priority))
  /\ toggled' = NoToggle
  /\ UNCHANGED <<today, has_tasks_df, auto_promote_ran, uuid_next, deleted,
                 policy_called, checkboxes, retryVars, normVars, peerVars>>

\* Lines 460 and 555: the Delete buttons.
DeleteTask ==
  /\ UserActs
  /\ \E task_id \in ScreenIds :
       LET present == task_id \in Ids(tasks_df)
       IN  /\ Commit([Quiet("delete_task") EXCEPT !.id = task_id],
                     in_table(tasks_df, task_id),
                     delete_task(tasks_df, task_id))
           /\ deleted' = IF present THEN deleted \cup {task_id} ELSE deleted
  /\ toggled' = NoToggle
  /\ UNCHANGED <<today, has_tasks_df, auto_promote_ran, uuid_next,
                 policy_called, checkboxes, retryVars, normVars, peerVars>>

\* The lists sort_items can return that differ from the list it was given:
\* texts in an order that is not their only order.
SortedLists ==
  UNION {{l \in [1..n -> Texts] : \E i, j \in 1..n : l[i] # l[j]} : n \in 2..MaxTasks}

\* Lines 514-519: a drag in reorder mode.
HandleSortChange ==
  /\ UserActs
  /\ \E sorted_list \in SortedLists :
       Commit(Quiet("handle_sort_change"), TRUE,
              handle_sort_change(tasks_df, sorted_list))
  /\ toggled' = NoToggle
  /\ UNCHANGED <<today, has_tasks_df, auto_promote_ran, uuid_next, deleted,
                 policy_called, checkboxes, retryVars, normVars, peerVars>>

\* Midnight passes in the configured timezone.
Tick ==
  /\ pc = "idle"
  /\ today < MaxDay
  /\ today' = today + 1
  /\ last' = Quiet("tick")
  /\ UNCHANGED <<sheet_exists, sheet, has_tasks_df, tasks_df, auto_promote_ran,
                 uuid_next, pc, toggled, deleted, ops, policy_called,
                 checkboxes, retryVars, normVars, peerVars>>

\* ------------------------------------------------------------- session
\* The rows a worksheet written by earlier sessions may hold for the id `id`:
\* incomplete rows of either priority, flagged or not, with or without a
\* created_at, and a completed row. add_task ranks the rows in the order of
\* their creation.
InitRows(id) ==
  {Row(id, "a", pf[1], FALSE, ca, 0, pf[2], id) :
     pf \in {<<"High", FALSE>>, <<"High", TRUE>>, <<"Medium", FALSE>>},
     ca \in {0, 1}}
  \cup {Row(id, "a", "Medium", TRUE, 1, 1, FALSE, id)}

InitSheets ==
  UNION {{t \in [1..n -> UNION {InitRows(i) : i \in 1..n}] :
            \A i \in 1..n : t[i].id = i} : n \in 0..MaxTasks}

RetryIdle ==
  /\ r_pc = "idle" /\ r_retries = 0 /\ r_i = 0 /\ r_log = <<>>
  /\ r_res = [ok |-> TRUE, err |-> {}]

NormIdle ==
  /\ pandas = "none" /\ norm_pc = "idle"
  /\ raw_table = <<>> /\ norm_first = <<>> /\ norm_table = <<>>

\* st.session_state and the script position of a session that has not run.
NewSession ==
  [has_tasks_df |-> FALSE, tasks_df |-> <<>>, auto_promote_ran |-> FALSE,
   pc |-> "load", last |-> Quiet("start"), toggled |-> NoToggle,
   deleted |-> {}, ops |-> 0, policy_called |-> FALSE, checkboxes |-> {}]

PeerIdle == cur = "A" /\ peer = NewSession

Init ==
  /\ today = 1
  /\ sheet \in InitSheets
  /\ sheet_exists \in BOOLEAN
  /\ (~sheet_exists => sheet = <<>>)
  /\ has_tasks_df = FALSE
  /\ tasks_df = <<>>
  /\ auto_promote_ran = FALSE
  /\ uuid_next = Len(sheet) + 1
  /\ pc = "load"
  /\ last = Quiet("start")
  /\ toggled = NoToggle
  /\ deleted = {}
  /\ ops = 0
  /\ policy_called = FALSE
  /\ checkboxes = {}
  /\ RetryIdle
  /\ NormIdle
  /\ PeerIdle

Next ==
  \/ LoadData
  \/ RunAutoPromote
  \/ ForceSync
  \/ AddTask
  \/ ToggleComplete
  \/ UpdateTaskDetails
  \/ DeleteTask
  \/ HandleSortChange
  \/ Tick

Spec == Init /\ [][Next]_vars

\* ------------------------------------------------------- reorder mode
\* Line 498: sorted(active, key=custom_sort_index, reverse=True), as the
\* indices of the rows; the sort is stable, ties stay in table order.
sorted_active(df) ==
  LET A == {i \in 1..Len(df) : ~df[i].completed}
      before(j, i) ==
        \/ df[j].custom_sort_index > df[i].custom_sort_index
        \/ (df[j].custom_sort_index = df[i].custom_sort_index /\ j < i)
      pos(i) == 1 + Cardinality({j \in A : before(j, i)})
  IN  [p \in 1..Cardinality(A) |-> CHOOSE i \in A : pos(i) = p]

\* The orders a drag can leave the k items of the list in.
Drags(k) == {f \in [1..k -> 1..k] : \A i, j \in 1..k : i # j => f[i] # f[j]}

\* Lines 510-519: the list of the texts of the incomplete rows is shown,
\* the user drags its items into another order, and sort_items returns the
\* texts in that order.
ReorderMode ==
  /\ UserActs
  /\ LET shown == sorted_active(tasks_df)
         k == Len(shown)
         sortable_list == [p \in 1..k |-> tasks_df[shown[p]].text]
     IN  /\ k > 0
         /\ \E f \in Drags(k) :
              LET sorted_items == [p \in 1..k |-> sortable_list[f[p]]]
                  order == [p \in 1..k |-> tasks_df[shown[f[p]]].id]
              IN  /\ sorted_items # sortable_list
                  /\ Commit([Quiet("handle_sort_change") EXCEPT !.order = order],
                            TRUE, handle_sort_change(tasks_df, sorted_items))
  /\ toggled' = NoToggle
  /\ UNCHANGED <<today, has_tasks_df, auto_promote_ran, uuid_next, deleted,
                 policy_called, checkboxes, retryVars, normVars, peerVars>>

\* The tables of a session whose list is on the screen: rows added today,
\* ranked in the order of their creation.
ReorderTables ==
  UNION {{t \in [1..n -> {Row(i, x, "Medium", c, 1, IF c THEN 1 ELSE 0, FALSE, i) :
                            i \in 1..n, x \in Texts, c \in BOOLEAN}] :
            \A i \in 1..n : t[i].id = i} : n \in 1..MaxRows}

ReorderInit ==
  /\ today = 1
  /\ tasks_df \in ReorderTables
  /\ sheet = tasks_df
  /\ sheet_exists = TRUE
  /\ has_tasks_df = TRUE
  /\ auto_promote_ran = TRUE
  /\ policy_called = TRUE
  /\ uuid_next = Len(tasks_df) + 1
  /\ pc = "idle"
  /\ last = Quiet("start")
  /\ toggled = NoToggle
  /\ deleted = {}
  /\ ops = 0
  /\ checkboxes = active(tasks_df)
  /\ RetryIdle
  /\ NormIdle
  /\ PeerIdle

ReorderNext ==
  \/ ReorderMode
  \/ LoadData
  \/ RunAutoPromote

SpecReorder == ReorderInit /\ [][ReorderNext]_vars

\* ------------------------------------------ one call of retry_operation
\* retry_operation(func, retries) step by step: r_i is the loop variable,
\* r_log the outcomes of the calls of func() so far, r_res what the caller
\* gets (the value, or the exception raised).
SessionIdle ==
  /\ today = 1 /\ sheet = <<>> /\ sheet_exists = FALSE
  /\ has_tasks_df = FALSE /\ tasks_df = <<>> /\ auto_promote_ran = FALSE
  /\ uuid_next = 1 /\ pc = "load" /\ last = Quiet("start")
  /\ toggled = NoToggle /\ deleted = {} /\ ops = 0 /\ policy_called = FALSE
  /\ checkboxes = {}

RetryInit ==
  /\ SessionIdle
  /\ r_pc = "loop"
  /\ r_retries \in 0..MaxAttempts
  /\ r_i = 0
  /\ r_log = <<>>
  /\ r_res = Ok
  /\ NormIdle
  /\ PeerIdle

\* Lines 240-249: func() is called and returns or raises.
RetryCall ==
  /\ r_pc = "loop"
  /\ in_range(r_i, r_retries)
  /\ \E out \in Outcomes :
       LET how == retry_attempt(out)
       IN  /\ r_log' = Append(r_log, out)
           /\ r_pc' = IF how = "return" THEN "returned"
                      ELSE IF how = "continue" THEN "loop" ELSE "raised"
           /\ r_i' = IF how = "continue" THEN r_i + 1 ELSE r_i
           /\ r_res' = IF how = "raise" THEN Fail(out.err) ELSE r_res
  /\ UNCHANGED <<r_retries, sessionVars, normVars, peerVars>>

\* Line 250: the loop has ended.
RetryExhausted ==
  /\ r_pc = "loop"
  /\ ~in_range(r_i, r_retries)
  /\ r_pc' = "raised"
  /\ r_res' = Fail(BusyError)
  /\ UNCHANGED <<r_retries, r_i, r_log, sessionVars, normVars, peerVars>>

RetryNext == RetryCall \/ RetryExhausted

\* time.sleep() returns and func() returns or raises: every step is taken.
SpecRetry == RetryInit /\ [][RetryNext]_vars /\ WF_vars(RetryNext)

\* --------------------------------------------------------- two sessions
\* Two sessions (two tabs) run the same script against the one worksheet,
\* each with its own st.session_state; the server runs one script at a time
\* to the end of a step, then either session may go on.
Switch ==
  /\ cur' = (IF cur = "A" THEN "B" ELSE "A")
  /\ peer' = [has_tasks_df |-> has_tasks_df, tasks_df |-> tasks_df,
              auto_promote_ran |-> auto_promote_ran, pc |-> pc, last |-> last,
              toggled |-> toggled, deleted |-> deleted, ops |-> ops,
              policy_called |-> policy_called, checkboxes |-> checkboxes]
  /\ has_tasks_df' = peer.has_tasks_df
  /\ tasks_df' = peer.tasks_df
  /\ auto_promote_ran' = peer.auto_promote_ran
  /\ pc' = peer.pc
  /\ last' = peer.last
  /\ toggled' = peer.toggled
  /\ deleted' = peer.deleted
  /\ ops' = peer.ops
  /\ policy_called' = peer.policy_called
  /\ checkboxes' = peer.checkboxes
  /\ UNCHANGED <<today, sheet_exists, sheet, uuid_next, retryVars, normVars>>

\* Both sessions start on a worksheet that exists, empty or with one row
\* added today.
TwoInit ==
  /\ today = 1
  /\ sheet \in {<<>>, <<Row(1, "a", "Medium", FALSE, 1, 0, FALSE, 1)>>}
  /\ sheet_exists = TRUE
  /\ has_tasks_df = FALSE
  /\ tasks_df = <<>>
  /\ auto_promote_ran = FALSE
  /\ uuid_next = Len(sheet) + 1
  /\ pc = "load"
  /\ last = Quiet("start")
  /\ toggled = NoToggle
  /\ deleted = {}
  /\ ops = 0
  /\ policy_called = FALSE
  /\ checkboxes = {}
  /\ RetryIdle
  /\ NormIdle
  /\ PeerIdle

TwoNext ==
  \/ LoadData
  \/ RunAutoPromote
  \/ AddTask
  \/ DeleteTask
  \/ Switch

SpecTwo == TwoInit /\ [][TwoNext]_vars

\* ------------------------------------------------ the schema normalizer
\* Lines 275-299 cell by cell. A cell is NaN (an empty cell of the
\* worksheet), None (a column line 279 added), a bool, a number or a string.
NaNCell == [t |-> "nan"]

NoneCell == [t |-> "none"]

BoolCell(b) == [t |-> "bool", b |-> b]

NumCell(n) == [t |-> "num", n |-> n]

StrCell(x) == [t |-> "str", s |-> x]

isnull(c) == c.t \in {"nan", "none"}

\* str() of a number.
num_str(n) == CASE n = 0 -> "0" [] n = 1 -> "1" [] n = 2 -> "2" [] OTHER -> "3"

\* float() of a string, where it has one.
Numerals == {"0", "1", "2", "3"}

str_num(x) == CASE x = "0" -> 0 [] x = "1" -> 1 [] x = "2" -> 2 [] OTHER -> 3

\* str.lower()
lower(x) == CASE x = "TRUE" -> "true" [] x = "No" -> "no" [] OTHER -> x

\* Series.astype(str) on a cell: NaN gives 'nan' and None gives 'None'.
astype_str(c) ==
  CASE c.t = "nan" -> StrCell("nan")
    [] c.t = "none" -> StrCell("None")
    [] c.t = "bool" -> StrCell(IF c.b THEN "True" ELSE "False")
    [] c.t = "num" -> StrCell(num_str(c.n))
    [] OTHER -> c

\* pd.to_numeric(errors='coerce') on a cell.
to_numeric(c) ==
  CASE c.t = "num" -> c
    [] c.t = "bool" -> NumCell(IF c.b THEN 1 ELSE 0)
    [] c.t = "str" -> (IF c.s \in Numerals THEN NumCell(str_num(c.s)) ELSE NaNCell)
    [] OTHER -> NaNCell

fillna(c, value) == IF isnull(c) THEN value ELSE c

\* Lines 291-294: bool(nan) is True, str(None).lower() is 'none'.
clean_bool(c) ==
  CASE c.t = "bool" -> c
    [] c.t = "num" -> BoolCell(c.n # 0)
    [] c.t = "nan" -> BoolCell(TRUE)
    [] c.t = "none" -> BoolCell(FALSE)
    [] OTHER -> BoolCell(lower(c.s) \in {"true", "1", "yes"})

\* Series.replace('nan', value) on the cells col of a column: a cell is
\* replaced when it is the string 'nan'.
replace_nan(col, value) ==
  [i \in 1..Len(col) |-> IF col[i] = StrCell("nan") THEN value ELSE col[i]]

\* Series.replace('nan', None) where pandas takes the None for "no value
\* given" (before 1.4): the cell gets the value of the cell above it.
RECURSIVE replace_nan_pad(_, _)
replace_nan_pad(col, i) ==
  IF i > Len(col) THEN col
  ELSE replace_nan_pad(
         [col EXCEPT ![i] = IF col[i] = StrCell("nan") /\ i > 1
                              THEN col[i - 1] ELSE col[i]], i + 1)

\* Line 299: df['completed_at'].astype(str).replace('nan', None)
completed_at_column(col, build) ==
  LET strs == [i \in 1..Len(col) |-> astype_str(col[i])]
  IN  IF build = "pad" THEN replace_nan_pad(strs, 1) ELSE replace_nan(strs, NoneCell)

\* Lines 281-286 on the cells of custom_sort_index; max() of a column that
\* holds a string beside the missing cells raises TypeError.
sort_index_column(col) ==
  LET n == Len(col)
      nums == {col[i].n : i \in {j \in 1..n : col[j].t = "num"}}
      max_val == IF nums = {} THEN NaNCell
                 ELSE NumCell(CHOOSE m \in nums : \A x \in nums : x <= m)
  IN  IF (\A i \in 1..n : isnull(col[i])) /\ n > 0
        THEN [ok |-> TRUE, col |-> [i \in 1..n |-> NumCell(n - i + 1)]]
      ELSE IF \E i \in 1..n : isnull(col[i])
        THEN IF \E i \in 1..n : col[i].t = "str"
               THEN [ok |-> FALSE, col |-> col]
               ELSE [ok |-> TRUE,
                     col |-> [i \in 1..n |->
                               fillna(col[i], fillna(max_val, NumCell(0)))]]
      ELSE [ok |-> TRUE, col |-> col]

Column(T, name) == [i \in 1..Len(T.rows) |-> T.rows[i][name]]

\* Lines 275-299 on the table T: the normalized table, or the exception.
normalize_table(T, build) ==
  LET n == Len(T.rows)
      rank0 == IF T.has_rank THEN Column(T, "custom_sort_index")
               ELSE [i \in 1..n |-> NoneCell]
      rank1 == sort_index_column(rank0)
      done == completed_at_column(Column(T, "completed_at"), build)
      created == replace_nan([i \in 1..n |-> astype_str(T.rows[i].created_at)],
                             StrCell(""))
  IN  [ok |-> rank1.ok,
       table |->
         [has_rank |-> TRUE,
          rows |-> [i \in 1..n |->
            [id |-> astype_str(T.rows[i].id),
             completed |-> clean_bool(T.rows[i].completed),
             was_auto_promoted |-> clean_bool(T.rows[i].was_auto_promoted),
             created_at |-> created[i],
             completed_at |-> done[i],
             custom_sort_index |-> fillna(to_numeric(rank1.col[i]), NumCell(0))]]]]

\* The cells of the columns that are converted cell by cell (id, completed,
\* was_auto_promoted, created_at), as the worksheet can hold them: typed, as
\* text, or empty.
RawCells ==
  {<<NumCell(1), NaNCell, BoolCell(FALSE), NaNCell>>,
   <<StrCell("1"), BoolCell(FALSE), StrCell("No"), StrCell("d1")>>,
   <<NumCell(1), NumCell(1), BoolCell(FALSE), StrCell("d1")>>,
   <<StrCell("1"), StrCell("TRUE"), StrCell("No"), NaNCell>>}

\* The rows conn.read can return; the cells of completed_at and of
\* custom_sort_index vary on their own, as their conversion looks at the
\* whole column.
RawRows(ranks) ==
  {[id |-> c[1], completed |-> c[2], was_auto_promoted |-> c[3],
    created_at |-> c[4], completed_at |-> d, custom_sort_index |-> k] :
     c \in RawCells, d \in {NaNCell, StrCell("d1")}, k \in ranks}

\* The tables conn.read can return, with the custom_sort_index column or
\* (a worksheet written before the column existed) without it.
RawTables ==
  UNION {{[has_rank |-> TRUE, rows |-> rows] :
            rows \in [1..n -> RawRows({NaNCell, NumCell(1), StrCell("2"), StrCell("x")})]}
         \cup {[has_rank |-> FALSE, rows |-> rows] :
                 rows \in [1..n -> RawRows({NaNCell})]} :
           n \in 0..MaxRawRows}

NormInit ==
  /\ SessionIdle
  /\ RetryIdle
  /\ pandas \in {"pad", "none"}
  /\ raw_table \in RawTables
  /\ norm_pc = "raw"
  /\ norm_first = <<>>
  /\ norm_table = <<>>
  /\ PeerIdle

\* load_data normalizes the table it read.
NormalizeRaw ==
  /\ norm_pc = "raw"
  /\ LET r == normalize_table(raw_table, pandas)
     IN  /\ norm_pc' = IF r.ok THEN "once" ELSE "failed"
         /\ norm_first' = IF r.ok THEN r.table ELSE norm_first
         /\ norm_table' = IF r.ok THEN r.table ELSE norm_table
  /\ UNCHANGED <<pandas, raw_table, sessionVars, retryVars, peerVars>>

\* The normalized table is normalized again.
NormalizeAgain ==
  /\ norm_pc = "once"
  /\ LET r == normalize_table(norm_table, pandas)
     IN  /\ norm_pc' = IF r.ok THEN "twice" ELSE "failed"
         /\ norm_table' = IF r.ok THEN r.table ELSE norm_table
  /\ UNCHANGED <<pandas, raw_table, norm_first, sessionVars, retryVars,
                 peerVars>>

NormNext == NormalizeRaw \/ NormalizeAgain

SpecNormalize == NormInit /\ [][NormNext]_vars

\* ============================================================== claims

\* C1. Promotion monotonicity: when run_auto_promote runs for the first time
\* in a session with today's date D, every row that before the run is
\* incomplete, not High and has a non-empty created_at date before D is,
\* after the run, High, flagged was_auto_promoted, and ranked strictly above
\* every rank the table held before the run.
C1_PromotionMonotonicity ==
  [][(pc = "promote" /\ has_tasks_df /\ ~policy_called) =>
       \A i \in 1..Len(tasks_df) :
         (/\ ~tasks_df[i].completed
          /\ tasks_df[i].priority # "High"
          /\ tasks_df[i].created_at # 0
          /\ tasks_df[i].created_at < today)
         => /\ Len(tasks_df') = Len(tasks_df)
            /\ tasks_df'[i].id = tasks_df[i].id
            /\ tasks_df'[i].priority = "High"
            /\ tasks_df'[i].was_auto_promoted
            /\ \A j \in 1..Len(tasks_df) :
                 tasks_df'[i].custom_sort_index > tasks_df[j].custom_sort_index]_vars

\* The policy has promoted a row of a two-row table.
C1_Witness ==
  /\ last.op = "run_auto_promote"
  /\ "Promoted" \in last.toasts
  /\ Len(tasks_df) = 2

\* C2. Single-run guarantee: once run_auto_promote has run in the session,
\* every later invocation leaves the table and the worksheet as they are
\* and calls no remote write.
C2_SingleRun ==
  [][(pc = "promote" /\ policy_called) =>
       /\ tasks_df' = tasks_df
       /\ has_tasks_df' = has_tasks_df
       /\ sheet' = sheet
       /\ sheet_exists' = sheet_exists
       /\ ~last'.write.attempted]_vars

\* A later invocation, after a user action and a change of date, has left
\* alone a row the promote rule matches.
C2_Witness ==
  /\ last.op = "run_auto_promote"
  /\ ops > 0
  /\ \E i \in 1..Len(tasks_df) :
       /\ ~tasks_df[i].completed
       /\ tasks_df[i].priority # "High"
       /\ tasks_df[i].created_at # 0
       /\ tasks_df[i].created_at < today

\* C3. Delete finality: after delete_task(id) on an id of the table the id
\* is absent from the table, and it is absent from the table the next
\* load_data(force_refresh=True) returns, whatever the write of the delete did.
C3_DeleteFinality ==
  [][/\ (last'.op = "delete_task" /\ last'.id \in Ids(tasks_df))
          => last'.id \notin Ids(tasks_df')
     /\ (last'.op = "force_sync" /\ ~last'.stopped)
          => deleted \cap Ids(tasks_df') = {}]_vars

\* C4. A read that fails with anything but the missing-table signal (the
\* retries running out included) halts the load: the table is kept as it was
\* (or stays unset), nothing is written, and the worksheet is untouched.
C4_FatalReadKeepsData ==
  [][(/\ last'.op \in {"load_data", "force_sync"}
      /\ last'.read.attempted
      /\ ~last'.read.ok
      /\ "WorksheetNotFound" \notin last'.read.err)
     => /\ last'.stopped
        /\ pc' = "idle"
        /\ has_tasks_df' = has_tasks_df
        /\ tasks_df' = tasks_df
        /\ ~last'.write.attempted
        /\ sheet' = sheet
        /\ sheet_exists' = sheet_exists]_vars

\* A forced load has been halted by the retries running out, with the rows
\* of the table still there.
C4_Witness ==
  /\ last.op = "force_sync"
  /\ last.stopped
  /\ last.read.err = BusyError
  /\ has_tasks_df
  /\ tasks_df # <<>>

\* C5. A failed write is not fatal and keeps the local state: when the
\* write of sync_to_cloud fails, the table is the one the mutation produced,
\* the worksheet is as before, the failure is a toast and no exception
\* leaves the handler.
C5_SyncFailureKeepsLocal ==
  [][(last'.write.attempted /\ ~last'.write.ok) =>
       /\ ~last'.raised
       /\ ~last'.stopped
       /\ "Cloud sync failed" \in last'.toasts
       /\ has_tasks_df'
       /\ sheet' = sheet
       /\ (last'.op = "add_task" =>
             tasks_df' = add_task(tasks_df, last'.text, last'.priority,
                                  last'.id, today))
       /\ (last'.op = "toggle_complete" =>
             tasks_df' = toggle_complete(tasks_df, last'.id, last'.val, today))
       /\ (last'.op = "update_task_details" =>
             tasks_df' = update_task_details(tasks_df, last'.id, last'.text,
                                             last'.priority))
       /\ (last'.op = "delete_task" =>
             tasks_df' = delete_task(tasks_df, last'.id))
       /\ (last'.op = "handle_sort_change" =>
             \E l \in SortedLists : tasks_df' = handle_sort_change(tasks_df, l))
       /\ (last'.op = "run_auto_promote" =>
             tasks_df' = promote_scan(tasks_df, today).df)
       /\ (last'.op \in {"load_data", "force_sync"} => tasks_df' = <<>>)]_vars

\* The write of a delete has failed: the row is gone locally and still on
\* the worksheet.
C5_Witness ==
  /\ last.op = "delete_task"
  /\ last.write.attempted
  /\ ~last.write.ok
  /\ last.id \notin Ids(tasks_df)
  /\ last.id \in Ids(sheet)

\* C6. Toggle round-trip: for an id of the table whose completed_at is None,
\* two toggles in a row restore completed to what it was and completed_at
\* to None.
C6_ToggleRoundTrip ==
  (toggled.n = 2 /\ toggled.completed_at = 0) =>
    \A i \in 1..Len(tasks_df) :
      tasks_df[i].id = toggled.id =>
        /\ tasks_df[i].completed = toggled.completed
        /\ tasks_df[i].completed_at = 0

\* C7. Edit clears the promotion flag: after update_task_details on an id of
\* the table the row's was_auto_promoted is False, whatever it was and
\* whatever the new priority, and its text and priority are the new ones.
C7_EditClearsFlag ==
  (last.op = "update_task_details" /\ last.id \in Ids(tasks_df)) =>
    \A i \in 1..Len(tasks_df) :
      tasks_df[i].id = last.id =>
        /\ ~tasks_df[i].was_auto_promoted
        /\ tasks_df[i].text = last.text
        /\ tasks_df[i].priority = last.priority

\* A flagged row has been edited and kept at High.
C7_Witness ==
  /\ last.op = "update_task_details"
  /\ last.id \in Ids(tasks_df)
  /\ last.was
  /\ last.priority = "High"

\* C8. A stale reference is a no-op: toggle_complete, update_task_details or
\* delete_task with an id that is not in the table leaves the table alone,
\* calls no remote write and raises nothing.
C8_StaleReferenceNoOp ==
  [][(/\ last'.op \in {"toggle_complete", "update_task_details", "delete_task"}
      /\ last'.id \notin Ids(tasks_df))
     => /\ tasks_df' = tasks_df
        /\ sheet' = sheet
        /\ sheet_exists' = sheet_exists
        /\ ~last'.write.attempted
        /\ last'.toasts = {}
        /\ ~last'.raised]_vars

\* A toggle has come in for a row that was deleted.
C8_Witness ==
  /\ last.op = "toggle_complete"
  /\ last.id \in deleted
  /\ last.id \notin Ids(tasks_df)

\* C9. Bounded retry: retry_operation ends; func() is called at most
\* `retries` times and never again after it has returned; a return follows a
\* call that succeeded; when every one of the `retries` calls failed with a
\* transient error the exception raised is the busy error, which is none of
\* the errors func() raised; and the caller never gets a transient error.
C9_BoundedRetry ==
  /\ [](/\ Len(r_log) <= r_retries
        /\ \A k \in 1..(Len(r_log) - 1) : ~r_log[k].ok
        /\ (r_pc = "returned" => Len(r_log) >= 1 /\ r_log[Len(r_log)].ok)
        /\ (Len(r_log) >= 1 /\ r_log[Len(r_log)].ok => r_pc = "returned")
        /\ (/\ r_pc = "raised"
            /\ Len(r_log) = r_retries
            /\ \A k \in 1..Len(r_log) :
                 ~r_log[k].ok /\ \E x \in TransientMarks : x \in r_log[k].err)
           => /\ r_res = Fail(BusyError)
              /\ \A k \in 1..Len(r_log) : r_log[k].err # BusyError
        /\ (r_pc = "raised" =>
              ~r_res.ok /\ ~\E x \in TransientMarks : x \in r_res.err))
  /\ <>(r_pc \in {"returned", "raised"})

\* Every one of several attempts failed with a transient error and the busy
\* error was raised.
C9_Witness ==
  /\ r_pc = "raised"
  /\ r_retries >= 2
  /\ Len(r_log) = r_retries
  /\ r_res = Fail(BusyError)

\* C10. Non-transient errors are not retried: a call of func() that fails
\* with an error outside the transient class is the last call, and that same
\* error is what retry_operation raises, whichever attempt it was.
C10_NonTransientNotRetried ==
  \A k \in 1..Len(r_log) :
    (~r_log[k].ok /\ ~\E x \in TransientMarks : x \in r_log[k].err)
    => /\ k = Len(r_log)
       /\ r_pc = "raised"
       /\ r_res = Fail(r_log[k].err)

\* A non-transient error on a later attempt has been raised as it is.
C10_Witness ==
  /\ r_pc = "raised"
  /\ Len(r_log) >= 2
  /\ r_res = Fail(r_log[Len(r_log)].err)
  /\ r_res.err # BusyError

\* C11. Missing-table bootstrap: when the read of load_data fails with the
\* missing-table signal, load_data stores the empty table, calls the remote
\* write of that empty table at once, and returns (the script goes on, there
\* is no st.stop); the worksheet holds the empty table when the write
\* succeeded and is as before when it failed.
C11_MissingTableBootstrap ==
  [][(/\ last'.op \in {"load_data", "force_sync"}
      /\ last'.read.attempted
      /\ ~last'.read.ok
      /\ "WorksheetNotFound" \in last'.read.err)
     => /\ has_tasks_df'
        /\ tasks_df' = <<>>
        /\ last'.write.attempted
        /\ ~last'.stopped
        /\ ~last'.raised
        /\ pc' = (IF last'.op = "load_data" THEN "promote" ELSE "load")
        /\ (last'.write.ok => sheet' = <<>> /\ sheet_exists')
        /\ (~last'.write.ok => sheet' = sheet /\ sheet_exists' = sheet_exists)]_vars

\* The first load found no worksheet and has created it empty.
C11_Witness ==
  /\ last.op = "load_data"
  /\ last.read.err = NotFound
  /\ last.write.attempted
  /\ last.write.ok
  /\ sheet_exists
  /\ sheet = <<>>
  /\ has_tasks_df
  /\ tasks_df = <<>>
  /\ pc = "promote"

\* C12. Carry-over rule: when run_auto_promote runs for the first time in a
\* session with today's date D, every row that before the run is incomplete,
\* High, not flagged and has a non-empty created_at date before D is, after
\* the run, flagged was_auto_promoted with its priority High and its rank
\* (and every other field) as before; and of two such incomplete rows created
\* before D, one High and not flagged and one not High, both end flagged
\* and High.
C12_CarryOver ==
  [][(pc = "promote" /\ has_tasks_df /\ ~policy_called) =>
       /\ Len(tasks_df') = Len(tasks_df)
       /\ \A i \in 1..Len(tasks_df) :
            (/\ ~tasks_df[i].completed
             /\ tasks_df[i].priority = "High"
             /\ ~tasks_df[i].was_auto_promoted
             /\ tasks_df[i].created_at # 0
             /\ tasks_df[i].created_at < today)
            => /\ tasks_df'[i].was_auto_promoted
               /\ tasks_df'[i].priority = "High"
               /\ tasks_df'[i].custom_sort_index = tasks_df[i].custom_sort_index
               /\ tasks_df'[i] = [tasks_df[i] EXCEPT !.was_auto_promoted = TRUE]
       /\ \A i, j \in 1..Len(tasks_df) :
            (/\ ~tasks_df[i].completed /\ ~tasks_df[j].completed
             /\ tasks_df[i].created_at # 0 /\ tasks_df[i].created_at < today
             /\ tasks_df[j].created_at # 0 /\ tasks_df[j].created_at < today
             /\ tasks_df[i].priority = "High" /\ ~tasks_df[i].was_auto_promoted
             /\ tasks_df[j].priority # "High")
            => /\ tasks_df'[i].was_auto_promoted /\ tasks_df'[i].priority = "High"
               /\ tasks_df'[j].was_auto_promoted /\ tasks_df'[j].priority = "High"]_vars

\* One run has carried over a High row and promoted the other row: both are
\* flagged and High, the carried one at the rank it had.
C12_Witness ==
  /\ last.op = "run_auto_promote"
  /\ last.matched = {"promote", "carry"}
  /\ Len(tasks_df) = 2
  /\ \A i \in 1..2 : tasks_df[i].was_auto_promoted /\ tasks_df[i].priority = "High"
  /\ \E i \in 1..2 : tasks_df[i].custom_sort_index = tasks_df[i].id

\* C13. Promotion exclusivity: in a run of run_auto_promote no row is matched
\* by both masks; a row mask_promote matched is, on the table the promote
\* rule leaves, not matched by mask_carried, and a row mask_carried matches
\* there was not matched by mask_promote and is as it was before the run.
C13_PromotionExclusivity ==
  [][(pc = "promote" /\ has_tasks_df) =>
       LET df1 == promote_rule(tasks_df, today)
       IN  \A i \in 1..Len(tasks_df) :
             /\ mask_promote(tasks_df[i], today) => ~mask_carried(df1[i], today)
             /\ mask_carried(df1[i], today) =>
                  /\ ~mask_promote(tasks_df[i], today)
                  /\ df1[i] = tasks_df[i]
                  /\ tasks_df[i].priority = "High"]_vars

\* Both rules have matched in one run, each its own row: the promoted row is
\* ranked above the table, the other row is where it was.
C13_Witness ==
  /\ last.op = "run_auto_promote"
  /\ "promote" \in last.matched
  /\ "carry" \in last.matched
  /\ "Promoted" \in last.toasts
  /\ \E i, j \in 1..Len(tasks_df) :
       /\ i # j
       /\ tasks_df[i].custom_sort_index = Len(tasks_df) + 1
       /\ tasks_df[j].custom_sort_index <= Len(tasks_df)
       /\ tasks_df[j].was_auto_promoted

\* C16. Add creates a top-ranked fresh row: after add_task(text, priority)
\* the table is the table before with one row appended; the new row's id is
\* the id of no row before, it is incomplete with completed_at None and
\* was_auto_promoted False, and its rank is above every rank the table held:
\* the maximum + 1, or 1 for an empty table.
C16_AddTopRanked ==
  [][(last'.op = "add_task") =>
       LET n == Len(tasks_df)
           new == tasks_df'[n + 1]
       IN  /\ Len(tasks_df') = n + 1
           /\ \A i \in 1..n : tasks_df'[i] = tasks_df[i]
           /\ new.id \notin Ids(tasks_df)
           /\ new.text = last'.text
           /\ new.priority = last'.priority
           /\ ~new.completed
           /\ new.completed_at = 0
           /\ ~new.was_auto_promoted
           /\ \A i \in 1..n : new.custom_sort_index > tasks_df[i].custom_sort_index
           /\ (n = 0 => new.custom_sort_index = 1)
           /\ (n > 0 => \E i \in 1..n :
                 new.custom_sort_index = tasks_df[i].custom_sort_index + 1)]_vars

\* A row has been added to a table that held a row.
C16_Witness ==
  /\ last.op = "add_task"
  /\ Len(tasks_df) = 2
  /\ tasks_df[2].id = last.id
  /\ tasks_df[2].custom_sort_index > tasks_df[1].custom_sort_index

\* C18. Toggle flips the stored value: after toggle_complete on an id of the
\* table, the row's completed is the negation of the completed the table
\* held for it before the call, and its completed_at is set exactly when
\* completed is True.
C18_ToggleFlipsStored ==
  [][(last'.op = "toggle_complete" /\ last'.id \in Ids(tasks_df)) =>
       /\ Len(tasks_df') = Len(tasks_df)
       /\ \A i \in 1..Len(tasks_df) :
            tasks_df[i].id = last'.id =>
              /\ tasks_df'[i].completed = ~tasks_df[i].completed
              /\ (tasks_df'[i].completed_at # 0) = tasks_df'[i].completed]_vars

\* C19. A successful sync makes the worksheet equal the table: right after a
\* handler or a run of run_auto_promote whose remote write succeeded, the
\* worksheet holds exactly the rows of the table, whatever it held before.
C19_SyncEqualsStore ==
  [][(/\ last'.op \in {"add_task", "toggle_complete", "update_task_details",
                       "delete_task", "handle_sort_change", "run_auto_promote"}
      /\ last'.write.attempted
      /\ last'.write.ok)
     => /\ sheet_exists'
        /\ has_tasks_df'
        /\ sheet' = tasks_df']_vars

\* A toggle's write has succeeded on a table that was ahead of the worksheet
\* by a delete whose own write had failed: the worksheet now has both changes.
C19_Witness ==
  /\ last.op = "toggle_complete"
  /\ last.write.attempted
  /\ last.write.ok
  /\ last.behind
  /\ last.id \in Ids(tasks_df)
  /\ deleted # {}
  /\ deleted \cap Ids(sheet) = {}
  /\ sheet = tasks_df

\* C20. Policy frame: a run of run_auto_promote leaves every field of every
\* row that is completed, or has an empty created_at, or a created_at date
\* not before today; and when no row is incomplete with a non-empty
\* created_at before today and either not High or not flagged, the table is
\* as before and no remote write is called.
C20_PolicyFrame ==
  [][(pc = "promote") =>
       /\ Len(tasks_df') = Len(tasks_df)
       /\ \A i \in 1..Len(tasks_df) :
            (\/ tasks_df[i].completed
             \/ tasks_df[i].created_at = 0
             \/ tasks_df[i].created_at >= today)
            => tasks_df'[i] = tasks_df[i]
       /\ (~\E i \in 1..Len(tasks_df) :
              /\ ~tasks_df[i].completed
              /\ tasks_df[i].created_at # 0
              /\ tasks_df[i].created_at < today
              /\ (tasks_df[i].priority # "High" \/ ~tasks_df[i].was_auto_promoted))
          => /\ tasks_df' = tasks_df
             /\ sheet' = sheet
             /\ ~last'.write.attempted]_vars

\* A run has promoted a row and left alone an incomplete Medium row whose
\* created_at is empty.
C20_Witness ==
  /\ last.op = "run_auto_promote"
  /\ "promote" \in last.matched
  /\ \E i \in 1..Len(tasks_df) :
       /\ tasks_df[i].created_at = 0
       /\ ~tasks_df[i].completed
       /\ tasks_df[i].priority = "Medium"
       /\ ~tasks_df[i].was_auto_promoted

\* C15. Reorder assigns count - position: after a drag that leaves the
\* incomplete rows in the order L, the row given at position p (0-based) has
\* rank len(L) - p, so of two listed rows the one given earlier is ranked
\* strictly above the one given later, also when their texts are equal.
C15_ReorderCountMinusPosition ==
  (last.op = "handle_sort_change" /\ Len(last.order) > 0) =>
    LET L == last.order
        rank(id) == (CHOOSE r \in {tasks_df[i] : i \in 1..Len(tasks_df)} :
                       r.id = id).custom_sort_index
    IN  /\ \A p \in 1..Len(L) : rank(L[p]) = Len(L) - (p - 1)
        /\ \A p, q \in 1..Len(L) : p < q => rank(L[p]) > rank(L[q])

\* C14. Idempotent normalization: for every raw table, normalizing the
\* normalized table gives the normalized table again.
C14_IdempotentNormalization ==
  norm_pc = "twice" => norm_table = norm_first

\* C17. Lost update across sessions: with two sessions on one worksheet,
\* a load in a session that holds a table reads nothing and keeps the table,
\* and a write that succeeds replaces the worksheet by the writer's whole
\* table, with no toast, no exception and no st.stop and without touching
\* the other session; so a row the other session added and wrote is dropped
\* from the worksheet by a session whose table predates it (the witness).
C17_LostUpdate ==
  [][(cur' = cur) =>
       /\ (last'.op = "load_data" /\ has_tasks_df) =>
            /\ ~last'.read.attempted
            /\ tasks_df' = tasks_df
            /\ sheet' = sheet
       /\ (last'.write.attempted /\ last'.write.ok) =>
            /\ sheet' = tasks_df'
            /\ peer' = peer
            /\ "Cloud sync failed" \notin last'.toasts
            /\ ~last'.raised
            /\ ~last'.stopped]_vars

\* The other session added a row and its write succeeded; then this session,
\* whose table never held that row, added or deleted another row and its
\* write succeeded: the row is on the worksheet no more, and still in the
\* table of the session that added it.
C17_Witness ==
  /\ peer.last.op = "add_task"
  /\ peer.last.write.attempted
  /\ peer.last.write.ok
  /\ peer.last.id \in Ids(peer.tasks_df)
  /\ last.op \in {"add_task", "delete_task"}
  /\ last.write.attempted
  /\ last.write.ok
  /\ last.id # peer.last.id
  /\ peer.last.id \notin Ids(tasks_df)
  /\ peer.last.id \notin deleted
  /\ peer.last.id \notin Ids(sheet)
  /\ sheet = tasks_df

\* C21. Flag implies High: in a session that starts from a table where every
\* row with was_auto_promoted True has priority High, after any sequence of
\* add_task, toggle_complete, update_task_details, delete_task,
\* handle_sort_change and runs of run_auto_promote (and loads of what the
\* session wrote), every row with was_auto_promoted True has priority High.
C21_FlagImpliesHigh ==
  \A i \in 1..Len(tasks_df) :
    tasks_df[i].was_auto_promoted => tasks_df[i].priority = "High"

\* A flagged row has been edited away from High: the edit cleared its flag.
C21_Witness ==
  /\ last.op = "update_task_details"
  /\ last.was
  /\ last.priority = "Medium"
  /\ \E i \in 1..Len(tasks_df) :
       /\ tasks_df[i].id = last.id
       /\ tasks_df[i].priority = "Medium"
       /\ ~tasks_df[i].was_auto_promoted

====
